---- MODULE Spec2Model ----
(***************************************************************************)
(* Expense tracker (src/main.py): the owner-scoped expense table and its   *)
(* four data-access functions, and the Google sign-in session around them. *)
(*                                                                         *)
(* Text is modelled as a sequence of ASCII codes, so that SQL's LIKE and   *)
(* the text comparison of the date column are computed, not assumed.       *)
(***************************************************************************)
EXTENDS Integers, Sequences, FiniteSets, TLC

VARIABLES
    expenses,         \* rows of table expenses (a set of records, keyed by id)
    sqlite_sequence,  \* largest id AUTOINCREMENT has handed out
    call,             \* the last data-access call made through the API
    ret,              \* what it returned: "True", "False", "None" or "rows"
    rows,             \* the rows the last get_expenses returned
    credentials,      \* st.session_state["credentials"]
    id_token,         \* st.session_state["id_token"]
    g_id_token,       \* the browser's cookie g_id_token
    query_params,     \* st.query_params: the query string of the page's URL
    menu,             \* the sidebar radio's selection, kept by the session
    view,             \* where the last run of the script ended and what it showed
    ops,              \* the data-access calls the last run of the script made
    rerun,            \* the last run ended in st.rerun()
    exchanged,        \* authorization codes presented to the provider's token endpoint
    event,            \* the last step: "load" of the page, "run" of the script in
                      \* the session, "logout", or "env" (the clock, the cookie jar)
    now               \* the clock, in seconds

storeVars == <<expenses, sqlite_sequence>>
apiVars == <<call, ret, rows>>
sessionVars == <<credentials, id_token, g_id_token, query_params, menu>>
runVars == <<view, ops, rerun>>
appVars == <<credentials, id_token, g_id_token, query_params, menu, view, ops,
             rerun, exchanged, event, now>>
vars == <<expenses, sqlite_sequence, call, ret, rows, credentials, id_token,
          g_id_token, query_params, menu, view, ops, rerun, exchanged, event, now>>

-----------------------------------------------------------------------------
(* Bounds *)

MaxId == 2            \* rows ever inserted
MaxTicks == 1         \* steps of the clock
MaxSaves == 1         \* rows inserted through the page

-----------------------------------------------------------------------------
(* Text *)

Pct == 37             \* '%'
Dash == 45            \* '-'
Zero == 48            \* '0'
Und == 95             \* '_'

EmptyText == <<>>
NULL == <<0>>         \* SQL NULL / Python None in a text column; no text holds code 0

Food == <<70, 111, 111, 100>>
Cash == <<67, 97, 115, 104>>
NoteAB == <<97, 95, 98>>      \* "a_b"

\* ASCII lower-casing, the only case folding LIKE does
Lower(c) == IF c >= 65 /\ c <= 90 THEN c + 32 ELSE c

\* SQLite's LIKE without ESCAPE: '%' matches any run of characters, '_' any
\* one character, every other character itself, ignoring ASCII case.
RECURSIVE LikeMatch(_, _)
LikeMatch(p, s) ==
    IF p = <<>> THEN s = <<>>
    ELSE IF Head(p) = Pct
         THEN LikeMatch(Tail(p), s) \/ (s # <<>> /\ LikeMatch(p, Tail(s)))
    ELSE /\ s # <<>>
         /\ (Head(p) = Und \/ Lower(Head(p)) = Lower(Head(s)))
         /\ LikeMatch(Tail(p), Tail(s))

\* x LIKE p in SQL's three-valued logic
Like(x, p) == IF x = NULL THEN "null" ELSE IF LikeMatch(p, x) THEN "true" ELSE "false"

Or3(a, b) ==
    IF a = "true" \/ b = "true" THEN "true"
    ELSE IF a = "null" \/ b = "null" THEN "null" ELSE "false"

\* f"%{search}%"
Wrap(search) == <<Pct>> \o search \o <<Pct>>

\* BINARY collation on TEXT: a < b
RECURSIVE TextLess(_, _)
TextLess(a, b) ==
    IF b = <<>> THEN FALSE
    ELSE IF a = <<>> THEN TRUE
    ELSE IF Head(a) # Head(b) THEN Head(a) < Head(b)
    ELSE TextLess(Tail(a), Tail(b))

TextLeq(a, b) == a = b \/ TextLess(a, b)

-----------------------------------------------------------------------------
(* Calendar dates and their text *)

Digit(n) == Zero + (n % 10)
Pad2(n) == <<Digit(n \div 10), Digit(n)>>
Pad4(n) == <<Digit(n \div 1000), Digit(n \div 100), Digit(n \div 10), Digit(n)>>

\* str(date): ISO, zero padded
DateStr(d) == Pad4(d.y) \o <<Dash>> \o Pad2(d.m) \o <<Dash>> \o Pad2(d.d)

Num(t, i, j) ==
    LET RECURSIVE N(_, _)
        N(k, acc) == IF k > j THEN acc ELSE N(k + 1, acc * 10 + (t[k] - Zero))
    IN N(i, 0)

\* the calendar date an ISO text stands for (pd.to_datetime)
ParseDate(t) == [y |-> Num(t, 1, 4), m |-> Num(t, 6, 7), d |-> Num(t, 9, 10)]

\* calendar order
DateLeq(a, b) ==
    \/ a.y < b.y
    \/ a.y = b.y /\ a.m < b.m
    \/ a.y = b.y /\ a.m = b.m /\ a.d <= b.d

Feb01 == [y |-> 2024, m |-> 2, d |-> 1]
Feb15 == [y |-> 2024, m |-> 2, d |-> 15]
Oct01 == [y |-> 2024, m |-> 10, d |-> 1]

-----------------------------------------------------------------------------
(* The expenses table *)

Row(id, user_email, category, amount, payment_method, date, notes, created_at) ==
    [id |-> id, user_email |-> user_email, category |-> category,
     amount |-> amount, payment_method |-> payment_method, date |-> date,
     notes |-> notes, created_at |-> created_at]

\* add_expense: the table, the sequence and the return value after the call
add_expense(db, user_email, category, amount, payment_method, date, notes, created_at) ==
    IF amount <= 0
    THEN [expenses |-> db.expenses, seq |-> db.seq, ret |-> "False"]
    ELSE [expenses |-> db.expenses \cup
                       {Row(db.seq + 1, user_email, category, amount,
                            payment_method, date, notes, created_at)},
          seq |-> db.seq + 1,
          ret |-> "True"]

\* WHERE id=? alone
Owned_id_only(db, expense_id, user_email) ==
    {r \in db.expenses : r.id = expense_id}

\* the rows UPDATE/DELETE ... WHERE id=? AND user_email=? selects
Owned(db, expense_id, user_email) ==
    {r \in db.expenses : r.id = expense_id /\ r.user_email = user_email}

\* the validation rejecting negative amounts only
update_expense_allows_zero(db, expense_id, user_email, category, amount, payment_method, date, notes) ==
    IF amount < 0
    THEN [expenses |-> db.expenses, seq |-> db.seq, ret |-> "False"]
    ELSE LET hit == {r \in db.expenses : r.id = expense_id /\ r.user_email = user_email}
         IN [expenses |-> (db.expenses \ hit) \cup
                          {[r EXCEPT !.category = category, !.amount = amount,
                                     !.payment_method = payment_method,
                                     !.date = date, !.notes = notes] : r \in hit},
             seq |-> db.seq,
             ret |-> IF Cardinality(hit) > 0 THEN "True" ELSE "False"]

update_expense(db, expense_id, user_email, category, amount, payment_method, date, notes) ==
    IF amount <= 0
    THEN [expenses |-> db.expenses, seq |-> db.seq, ret |-> "False"]
    ELSE LET hit == Owned(db, expense_id, user_email)
         IN [expenses |-> (db.expenses \ hit) \cup
                          {[r EXCEPT !.category = category, !.amount = amount,
                                     !.payment_method = payment_method,
                                     !.date = date, !.notes = notes] : r \in hit},
             seq |-> db.seq,
             ret |-> IF Cardinality(hit) > 0 THEN "True" ELSE "False"]

delete_expense(db, expense_id, user_email) ==
    [expenses |-> db.expenses \ Owned(db, expense_id, user_email),
     seq |-> db.seq, ret |-> "None"]

\* the search predicate of get_expenses, three-valued
SearchPred(r, search) ==
    Or3(Or3(Like(r.category, Wrap(search)), Like(r.payment_method, Wrap(search))),
        Like(r.notes, Wrap(search)))

\* the search terms appended without their parentheses: AND binds tighter than OR
Where_no_parentheses(r, user_email, search, start_date, end_date) ==
    IF search = EmptyText
    THEN /\ r.user_email = user_email
         /\ start_date # EmptyText => TextLeq(start_date, r.date)
         /\ end_date # EmptyText => TextLeq(r.date, end_date)
    ELSE \/ r.user_email = user_email /\ Like(r.category, Wrap(search)) = "true"
         \/ Like(r.payment_method, Wrap(search)) = "true"
         \/ /\ Like(r.notes, Wrap(search)) = "true"
            /\ start_date # EmptyText => TextLeq(start_date, r.date)
            /\ end_date # EmptyText => TextLeq(r.date, end_date)

\* the WHERE clause get_expenses builds; "if search:" is false for None and ""
Where(r, user_email, search, start_date, end_date) ==
    /\ r.user_email = user_email
    /\ search # EmptyText => SearchPred(r, search) = "true"
    /\ start_date # EmptyText => TextLeq(start_date, r.date)
    /\ end_date # EmptyText => TextLeq(r.date, end_date)

Selected(db, user_email, search, start_date, end_date) ==
    {r \in db.expenses : Where(r, user_email, search, start_date, end_date)}

\* ORDER BY date, ascending
OrderedAsc(q) == \A i \in 1..Len(q) - 1 : TextLeq(q[i].date, q[i + 1].date)

\* ORDER BY date DESC on the TEXT column
OrderedDesc(q) == \A i \in 1..Len(q) - 1 : TextLeq(q[i + 1].date, q[i].date)

\* every sequence the query may return: the selected rows, each once, in an
\* order ORDER BY date DESC allows (rows of equal date in any order)
get_expenses(db, user_email, search, start_date, end_date) ==
    LET sel == Selected(db, user_email, search, start_date, end_date)
        n == Cardinality(sel)
    IN {q \in [1..n -> sel] :
            /\ \A i, j \in 1..n : i # j => q[i] # q[j]
            /\ OrderedDesc(q)}

-----------------------------------------------------------------------------
(* Identity tokens and their verification *)

CLIENT_ID == "client-id"
NoAudience == "None"
CLOCK_SKEW == 10
FarFuture == 1000

Tokens == {"tokA", "tokB", "tokOther", "tokForged"}

\* what an identity token claims, and whether Google's keys signed it
Claims(t) ==
    CASE t = "tokA" ->
           [email |-> "a@x.com", name |-> "Ann", aud |-> CLIENT_ID, exp |-> 0,
            signed |-> TRUE]
      [] t = "tokB" ->
           [email |-> "b@x.com", name |-> "Bob", aud |-> CLIENT_ID, exp |-> FarFuture,
            signed |-> TRUE]
      [] t = "tokOther" ->
           [email |-> "b@x.com", name |-> "Bob", aud |-> "other-client",
            exp |-> FarFuture, signed |-> TRUE]
      [] t = "tokForged" ->
           [email |-> "a@x.com", name |-> "Ann", aud |-> CLIENT_ID, exp |-> FarFuture,
            signed |-> FALSE]

None == [py |-> "None"]           \* st.session_state["credentials"] = None
Missing == [py |-> "missing"]     \* no key "credentials" in st.session_state
Raised == [py |-> "raised"]       \* the call raised
NoToken == "<missing>"            \* no key "id_token" in st.session_state

\* id_token.verify_oauth2_token(token, request, audience, clock_skew_in_seconds):
\* the decoded claims, or Raised; an audience of None is not checked
verify_oauth2_token(token, audience, clock_skew_in_seconds, t) ==
    LET c == Claims(token)
    IN IF /\ c.signed
          /\ audience # NoAudience => c.aud = audience
          /\ t <= c.exp + clock_skew_in_seconds
       THEN [email |-> c.email, name |-> c.name, aud |-> c.aud, exp |-> c.exp]
       ELSE Raised

\* the verification without its audience
callback_verify_any_audience(token, t) ==
    verify_oauth2_token(token, NoAudience, CLOCK_SKEW, t)

\* the verification callback makes of the token the exchange returned
callback_verify(token, t) == verify_oauth2_token(token, CLIENT_ID, CLOCK_SKEW, t)

\* the claims of the cookie's token taken without verification
restore_verify_unchecked(token, t) ==
    LET c == Claims(token)
    IN [email |-> c.email, name |-> c.name, aud |-> c.aud, exp |-> c.exp]

\* the verification the session restore makes of the cookie's token
restore_verify(token, t) == verify_oauth2_token(token, CLIENT_ID, CLOCK_SKEW, t)

-----------------------------------------------------------------------------
(* The session: a record s of the session state, the cookie, the query     *)
(* parameters, the provider's log, the table and what the run showed       *)

AuthCodes == {"c1"}

Code(params) == {p[2] : p \in {q \in params : q[1] = "code"}}

\* flow.fetch_token: the identity token received, or "raised"; the provider
\* redeems a code once
FetchOutcomes(s) ==
    IF Code(s.query_params) \subseteq s.exchanged THEN {"raised"}
    ELSE {"raised"} \cup Tokens

\* callback(): the state after it and what it returned; x is what fetch_token did
callback(s, x, t) ==
    IF Code(s.query_params) = {}
    THEN [s |-> s, returned |-> FALSE]
    ELSE LET s1 == [s EXCEPT !.exchanged = @ \cup Code(s.query_params)]
         IN IF x = "raised"
            THEN [s |-> [s1 EXCEPT !.error = TRUE], returned |-> FALSE]
            ELSE LET s2 == [s1 EXCEPT !.id_token = x]
                     idinfo == callback_verify(x, t)
                 IN IF idinfo = Raised
                    THEN [s |-> [s2 EXCEPT !.error = TRUE], returned |-> FALSE]
                    ELSE [s |-> [s2 EXCEPT !.credentials = idinfo,
                                           !.g_id_token = x,
                                           !.query_params = {}],
                          returned |-> TRUE]

\* logout() with the key deleted by del st.session_state["id_token"]
logout_del(s) ==
    IF s.id_token = NoToken
    THEN [s EXCEPT !.credentials = None, !.raised = TRUE]
    ELSE [s EXCEPT !.credentials = None, !.id_token = NoToken, !.g_id_token = "",
                   !.query_params = {}]

\* logout(): st.rerun() in a widget callback does nothing; the script runs next
logout(s) ==
    [s EXCEPT !.credentials = None, !.id_token = NoToken, !.g_id_token = "",
              !.query_params = {}]

\* lines 52-53
session_state_init(s) ==
    IF s.credentials = Missing THEN [s EXCEPT !.credentials = None] ELSE s

\* lines 124-133
session_restore(s, t) ==
    IF s.credentials \in {Missing, None} /\ s.g_id_token # ""
    THEN LET idinfo == restore_verify(s.g_id_token, t)
         IN IF idinfo # Raised
            THEN [s EXCEPT !.credentials = idinfo, !.id_token = s.g_id_token]
            ELSE [s EXCEPT !.g_id_token = ""]
    ELSE s

Shown(s, v) == [s EXCEPT !.view = v]

\* lines 135-141: rerun after a completed callback, else the login link and stop
login_gate(s, x, t) ==
    LET cb == callback(s, x, t)
    IN IF cb.returned
       THEN [s |-> [Shown(cb.s, "welcome") EXCEPT !.rerun = TRUE], stop |-> TRUE]
       ELSE [s |-> Shown(cb.s, IF cb.s.error THEN "login_failed" ELSE "login"),
             stop |-> TRUE]

\* lines 260-266: the same test a second time, going on after a completed callback
second_gate(s, x, t) ==
    IF s.credentials = None
    THEN LET cb == callback(s, x, t)
         IN IF cb.returned
            THEN [s |-> cb.s, stop |-> FALSE]
            ELSE [s |-> Shown(cb.s, IF cb.s.error THEN "login_failed" ELSE "login"),
                  stop |-> TRUE]
    ELSE [s |-> s, stop |-> FALSE]

Op(name, owner) == [op |-> name, owner |-> owner]

Did(s, name, owner) == [s EXCEPT !.ops = @ \cup {Op(name, owner)}]

\* the owner passed in place of the e-mail: the display name
user_email_is_name(user_info) == user_info.name

\* line 270
user_email_of(user_info) == user_info.email

Stored(s, r) == [s EXCEPT !.expenses = r.expenses, !.seq = r.seq]

\* lines 269-495: the page of the signed-in user; in holds the widgets' values
page(s, in, t) ==
    LET user_email == user_email_of(s.credentials)
        d == [expenses |-> s.expenses, seq |-> s.seq]
        p == Shown(s, "page")
    IN IF s.menu \in {"Home", "Reports"}
       THEN Did(p, "get_expenses", user_email)
       ELSE IF s.menu = "Add Expense"
       THEN IF in.click = "save"
            THEN LET r == add_expense(d, user_email, in.category, in.amount,
                                      in.payment_method, DateStr(in.date), in.notes, t)
                 IN [Did(Stored(p, r), "add_expense", user_email)
                        EXCEPT !.rerun = (r.ret = "True")]
            ELSE p
       ELSE LET listed == Selected(d, user_email, in.search,
                                   DateStr(in.start_date), DateStr(in.end_date))
                g == Did(p, "get_expenses", user_email)
                picked == in.pick
            IN IF listed = {} THEN g
               ELSE IF in.click = "update"
               THEN LET r == update_expense(d, picked, user_email, in.category,
                                            in.amount, in.payment_method,
                                            DateStr(in.date), in.notes)
                    IN [Did(Stored(g, r), "update_expense", user_email)
                           EXCEPT !.rerun = (r.ret = "True")]
               ELSE IF in.click = "delete"
               THEN LET r == delete_expense(d, picked, user_email)
                    IN [Did(Stored(g, r), "delete_expense", user_email)
                           EXCEPT !.rerun = TRUE]
               ELSE g

\* one run of the script, top to bottom
script(s, in, x, t) ==
    LET s0 == [s EXCEPT !.view = "none", !.ops = {}, !.rerun = FALSE,
                        !.error = FALSE]
    IN IF ~in.ready THEN Shown(s0, "notready")
       ELSE LET s1 == session_restore(session_state_init(s0), t)
            IN IF s1.credentials = None
               THEN login_gate(s1, x, t).s
               ELSE LET g == second_gate(s1, x, t)
                    IN IF g.stop THEN g.s ELSE page(g.s, in, t)

-----------------------------------------------------------------------------
(* Inputs *)

Owners == {"a@x.com", "b@x.com"}
Categories == {Food}
Amounts == {-1, 0, 1}
Methods == {Cash}
Dates == {Feb01, Oct01}
Notes == {NULL, NoteAB}
Searches == {EmptyText, <<102, 79>>, <<Und>>, <<Pct>>, <<120>>}   \* "", "fO", "_", "%", "x"
Bounds == {EmptyText, DateStr(Feb15)}
Ids == 1..MaxId

NoCall == [op |-> "none"]

Init ==
    /\ expenses = {}
    /\ sqlite_sequence = 0
    /\ call = NoCall
    /\ ret = "None"
    /\ rows = <<>>
    /\ credentials = Missing
    /\ id_token = NoToken
    /\ g_id_token = ""
    /\ query_params = {}
    /\ menu = "Home"
    /\ view = "none"
    /\ ops = {}
    /\ rerun = FALSE
    /\ exchanged = {}
    /\ event = "none"
    /\ now = 0

db == [expenses |-> expenses, seq |-> sqlite_sequence]

-----------------------------------------------------------------------------
(* The data-access functions, called with any arguments *)

\* created_at is the clock's reading; the clock does not move in StoreSpec
AddExpense(e, c, a, p, d, n) ==
    LET r == add_expense(db, e, c, a, p, DateStr(d), n, now)
    IN /\ r.seq <= MaxId
       /\ expenses' = r.expenses
       /\ sqlite_sequence' = r.seq
       /\ call' = [op |-> "add_expense", user_email |-> e, amount |-> a]
       /\ ret' = r.ret
       /\ rows' = <<>>
       /\ UNCHANGED appVars

UpdateExpense(i, e, c, a, p, d, n) ==
    LET r == update_expense(db, i, e, c, a, p, DateStr(d), n)
    IN /\ expenses' = r.expenses
       /\ sqlite_sequence' = r.seq
       /\ call' = [op |-> "update_expense", expense_id |-> i, user_email |-> e,
                   amount |-> a]
       /\ ret' = r.ret
       /\ rows' = <<>>
       /\ UNCHANGED appVars

DeleteExpense(i, e) ==
    LET r == delete_expense(db, i, e)
    IN /\ expenses' = r.expenses
       /\ sqlite_sequence' = r.seq
       /\ call' = [op |-> "delete_expense", expense_id |-> i, user_email |-> e]
       /\ ret' = r.ret
       /\ rows' = <<>>
       /\ UNCHANGED appVars

GetExpenses(e, s, lo, hi) ==
    /\ rows' \in get_expenses(db, e, s, lo, hi)
    /\ call' = [op |-> "get_expenses", user_email |-> e, search |-> s,
                start_date |-> lo, end_date |-> hi]
    /\ ret' = "rows"
    /\ UNCHANGED <<storeVars, appVars>>

NextStore ==
    \/ \E e \in Owners, c \in Categories, a \in Amounts, p \in Methods,
          d \in Dates, n \in Notes : AddExpense(e, c, a, p, d, n)
    \/ \E i \in Ids, e \in Owners, c \in Categories, a \in Amounts, p \in Methods,
          d \in Dates, n \in Notes : UpdateExpense(i, e, c, a, p, d, n)
    \/ \E i \in Ids, e \in Owners : DeleteExpense(i, e)
    \/ \E e \in Owners, s \in Searches, lo \in Bounds, hi \in Bounds :
          GetExpenses(e, s, lo, hi)

StoreSpec == Init /\ [][NextStore]_vars

-----------------------------------------------------------------------------
(* The application: page loads, widget events, the clock and the cookie jar *)

TickStep == 20

Menus == {"Home", "Add Expense", "View & Edit Expenses", "Reports"}
PageAmounts == {1}                \* number_input(min_value=0.01)
PageDates == {Feb01, Oct01}
PageNotes == {EmptyText}
PageSearches == {EmptyText, <<Und>>}

Cur ==
    [credentials |-> credentials, id_token |-> id_token, g_id_token |-> g_id_token,
     query_params |-> query_params, menu |-> menu, exchanged |-> exchanged,
     expenses |-> expenses, seq |-> sqlite_sequence, view |-> view, ops |-> ops,
     rerun |-> rerun, error |-> FALSE, raised |-> FALSE]

\* the widgets' values in a run no widget triggered
Idle ==
    [ready |-> TRUE, click |-> "none", category |-> Food, amount |-> 1,
     payment_method |-> Cash, date |-> Feb01, notes |-> EmptyText,
     search |-> EmptyText, start_date |-> Feb01, end_date |-> Oct01, pick |-> 0]

Commit(r, ev) ==
    /\ credentials' = r.credentials
    /\ id_token' = r.id_token
    /\ g_id_token' = r.g_id_token
    /\ query_params' = r.query_params
    /\ menu' = r.menu
    /\ exchanged' = r.exchanged
    /\ expenses' = r.expenses
    /\ sqlite_sequence' = r.seq
    /\ view' = r.view
    /\ ops' = r.ops
    /\ rerun' = r.rerun
    /\ event' = ev
    /\ UNCHANGED <<apiVars, now>>

Run(s, in, ev) == \E x \in FetchOutcomes(s) : Commit(script(s, in, x, now), ev)

\* a page load starts a session with an empty st.session_state
NewSession(s, params) ==
    [s EXCEPT !.credentials = Missing, !.id_token = NoToken, !.menu = "Home",
              !.query_params = params]

OpenApp ==
    \E ready \in BOOLEAN :
        Run(NewSession(Cur, {}), [Idle EXCEPT !.ready = ready], "load")

ProviderRedirect(c) ==
    \E ready \in BOOLEAN :
        Run(NewSession(Cur, {<<"code", c>>}), [Idle EXCEPT !.ready = ready], "load")

Refresh ==
    /\ view # "none"
    /\ \E ready \in BOOLEAN :
          Run(NewSession(Cur, query_params), [Idle EXCEPT !.ready = ready], "load")

Rerun ==
    /\ view # "none"
    /\ Run(Cur, Idle, "run")

Interactive == view = "page" /\ ~rerun

SelectMenu(m) ==
    /\ Interactive
    /\ Run([Cur EXCEPT !.menu = m], Idle, "run")

SaveExpense(c, a, p, d, n) ==
    /\ Interactive
    /\ menu = "Add Expense"
    /\ sqlite_sequence < MaxSaves
    /\ Run(Cur, [Idle EXCEPT !.click = "save", !.category = c, !.amount = a,
                             !.payment_method = p, !.date = d, !.notes = n], "run")

Listed(in) ==
    {r.id : r \in Selected(db, user_email_of(credentials), in.search,
                           DateStr(in.start_date), DateStr(in.end_date))}

SubmitUpdate(f, i, c, a, p, d, n) ==
    LET in == [Idle EXCEPT !.click = "update", !.search = f, !.pick = i,
                           !.category = c, !.amount = a, !.payment_method = p,
                           !.date = d, !.notes = n]
    IN /\ Interactive
       /\ menu = "View & Edit Expenses"
       /\ i \in Listed(in)
       /\ Run(Cur, in, "run")

ClickDelete(f, i) ==
    LET in == [Idle EXCEPT !.click = "delete", !.search = f, !.pick = i]
    IN /\ Interactive
       /\ menu = "View & Edit Expenses"
       /\ i \in Listed(in)
       /\ Run(Cur, in, "run")

\* the Logout button: on_click=logout, then the script runs
ClickLogout ==
    /\ Interactive
    /\ LET s1 == logout(Cur)
       IN IF s1.raised
          THEN Commit([s1 EXCEPT !.view = "exception", !.ops = {}, !.rerun = FALSE],
                      "logout")
          ELSE Run(s1, Idle, "logout")

Tick ==
    /\ now < MaxTicks * TickStep
    /\ now' = now + TickStep
    /\ event' = "env"
    /\ UNCHANGED <<storeVars, apiVars, sessionVars, runVars, exchanged>>

\* the browser's cookie jar is the user's: the cookie expires, is removed or is set
SetCookie(v) ==
    /\ g_id_token' = v
    /\ g_id_token' # g_id_token
    /\ event' = "env"
    /\ UNCHANGED <<storeVars, apiVars, credentials, id_token, query_params, menu,
                   runVars, exchanged, now>>

Next ==
    \/ OpenApp
    \/ \E c \in AuthCodes : ProviderRedirect(c)
    \/ Refresh
    \/ Rerun
    \/ \E m \in Menus : SelectMenu(m)
    \/ \E c \in Categories, a \in PageAmounts, p \in Methods, d \in PageDates,
          n \in PageNotes : SaveExpense(c, a, p, d, n)
    \/ \E f \in PageSearches, i \in Ids, c \in Categories, a \in PageAmounts,
          p \in Methods, d \in PageDates, n \in PageNotes :
          SubmitUpdate(f, i, c, a, p, d, n)
    \/ \E f \in PageSearches, i \in Ids : ClickDelete(f, i)
    \/ ClickLogout
    \/ Tick
    \/ \E v \in Tokens \cup {""} : SetCookie(v)

Spec == Init /\ [][Next]_vars

-----------------------------------------------------------------------------
(* Properties of the data-access functions *)

\* C1: add_expense and update_expense called with an amount <= 0 return False
\* and leave the table as it was, also when update's (id, owner) matches a row.
C1_NonPositiveAmountRejected ==
    [][(/\ call'.op \in {"add_expense", "update_expense"}
        /\ call'.amount <= 0)
       => (/\ ret' = "False"
           /\ expenses' = expenses
           /\ sqlite_sequence' = sqlite_sequence)]_vars

C1_Witness ==
    /\ call.op = "update_expense"
    /\ call.amount <= 0
    /\ ret = "False"
    /\ \E r \in expenses : r.id = call.expense_id /\ r.user_email = call.user_email

\* C2: when no row has both the id and the owner given (the id may exist under
\* another owner), update_expense with an amount > 0 returns False, delete_expense
\* returns normally, and both leave the table as it was.
C2_NoMatchIsNoOp ==
    [][(/\ call'.op \in {"update_expense", "delete_expense"}
        /\ call'.op = "update_expense" => call'.amount > 0
        /\ ~ \E r \in expenses :
                r.id = call'.expense_id /\ r.user_email = call'.user_email)
       => (/\ expenses' = expenses
           /\ sqlite_sequence' = sqlite_sequence
           /\ ret' = IF call'.op = "update_expense" THEN "False" ELSE "None")]_vars

C2_Witness ==
    /\ call.op = "update_expense"
    /\ call.amount > 0
    /\ ret = "False"
    /\ \E r \in expenses : r.id = call.expense_id /\ r.user_email # call.user_email

\* C3: get_expenses(o1, ...) returns no row of another owner, whatever the
\* search text and the date bounds.
C3_OwnerIsolation ==
    ret = "rows" =>
        \A i \in 1..Len(rows) : rows[i].user_email = call.user_email

C3_Witness ==
    /\ ret = "rows"
    /\ call.search # EmptyText
    /\ call.start_date # EmptyText
    /\ Len(rows) > 0
    /\ \E r \in expenses :
          /\ r.user_email # call.user_email
          /\ Like(r.payment_method, Wrap(call.search)) = "true"

\* s occurs in t, ignoring ASCII case
ContainsCI(t, s) ==
    /\ t # NULL
    /\ \E i \in 0..(Len(t) - Len(s)) :
          \A k \in 1..Len(s) : Lower(t[i + k]) = Lower(s[k])

\* C8: get_expenses(owner, s) with a non-empty s returns exactly the owner's
\* rows in which s occurs, ignoring case, in category, payment_method or notes.
C8_SearchIsSubstring ==
    (/\ ret = "rows"
     /\ call.search # EmptyText
     /\ call.start_date = EmptyText
     /\ call.end_date = EmptyText)
    => {rows[i] : i \in 1..Len(rows)} =
       {r \in expenses :
           /\ r.user_email = call.user_email
           /\ \/ ContainsCI(r.category, call.search)
              \/ ContainsCI(r.payment_method, call.search)
              \/ ContainsCI(r.notes, call.search)}

\* C9: the rows get_expenses returns are in non-increasing order of calendar date.
C9_DateDescending ==
    ret = "rows" =>
        \A i \in 1..Len(rows) - 1 :
            DateLeq(ParseDate(rows[i + 1].date), ParseDate(rows[i].date))

C9_Witness ==
    /\ ret = "rows"
    /\ Len(rows) >= 2
    /\ rows[1].date # rows[2].date

-----------------------------------------------------------------------------
(* Properties of the session *)

Anonymous(c) == c \in {None, Missing}

\* the token is signed by the provider, issued to this client and not expired at t
Genuine(tok, t) ==
    /\ tok \in Tokens
    /\ Claims(tok).signed
    /\ Claims(tok).aud = CLIENT_ID
    /\ t <= Claims(tok).exp + CLOCK_SKEW

IdentityOf(tok) ==
    [email |-> Claims(tok).email, name |-> Claims(tok).name,
     aud |-> Claims(tok).aud, exp |-> Claims(tok).exp]

\* C4: the session holds an identity only if a token verified against the client
\* id produced it, on the callback path and on the cookie path alike: whenever
\* credentials becomes a new identity, the raw token kept with it is genuine at
\* that moment and the identity is that token's; no identity of a token with
\* another audience or a bad signature is ever held.
C4_AuthenticatedOnlyIfVerified ==
    /\ [](~Anonymous(credentials) =>
            \E tok \in Tokens :
                /\ Claims(tok).signed
                /\ Claims(tok).aud = CLIENT_ID
                /\ credentials = IdentityOf(tok))
    /\ [][(credentials' # credentials /\ ~Anonymous(credentials'))
          => (/\ Genuine(id_token', now)
              /\ credentials' = IdentityOf(id_token'))]_vars

C4_Witness ==
    /\ view = "welcome"
    /\ ~Anonymous(credentials)
    /\ g_id_token = id_token

\* C5: a step that presents an authorization code to the token endpoint, whether
\* the exchange succeeds or fails, ends with the query parameters cleared.
C5_CodeClearedOnceConsumed ==
    [][exchanged' # exchanged => query_params' = {}]_vars

\* C6: logout leaves the session without identity and without raw token, the
\* cookie empty and the query parameters empty, and the run that follows shows
\* the login link; a second logout raises nothing and changes nothing.
C6_LogoutClearsAndIsIdempotent ==
    /\ [][event' = "logout"
          => (/\ credentials' = None
              /\ id_token' = NoToken
              /\ g_id_token' = ""
              /\ query_params' = {}
              /\ view' = "login"
              /\ ops' = {})]_vars
    /\ [](LET s1 == logout(Cur)
          IN /\ ~s1.raised
             /\ s1.credentials = None
             /\ s1.id_token = NoToken
             /\ s1.g_id_token = ""
             /\ s1.query_params = {}
             /\ logout(s1) = s1)

C6_Witness ==
    /\ event = "logout"
    /\ view = "login"
    /\ credentials = None
    /\ exchanged # {}

\* C7: the page calls the data-access functions only in a run in which the
\* session holds an identity, and passes that identity's e-mail as the owner;
\* a run that leaves the session without identity shows the login link (or
\* stops earlier) and makes no call.
C7_LedgerCallsUseSessionIdentity ==
    /\ ops # {} =>
          /\ ~Anonymous(credentials)
          /\ view = "page"
          /\ \A o \in ops : o.owner = credentials.email
    /\ Anonymous(credentials) =>
          /\ ops = {}
          /\ view \in {"none", "notready", "login", "login_failed"}
    /\ view \in {"login", "login_failed"} => credentials = None /\ ops = {}

C7_Witness ==
    /\ \E o \in ops : o.op = "update_expense"
    /\ \E r \in expenses : r.user_email = credentials.email

\* C10: a run that starts without identity and with a non-empty cookie: if the
\* cookie's token verifies, the session holds its identity and the page is
\* shown with no code presented to the provider and the cookie kept; if it does
\* not, the cookie is cleared, and the session is signed in only by a callback
\* completed in the same run, with another token.
C10_CookieRestore ==
    [][(/\ event' \in {"load", "run"}
        /\ view' # "notready"
        /\ event' = "load" \/ Anonymous(credentials)
        /\ g_id_token # "")
       => IF Genuine(g_id_token, now)
          THEN /\ credentials' = IdentityOf(g_id_token)
               /\ id_token' = g_id_token
               /\ g_id_token' = g_id_token
               /\ exchanged' = exchanged
               /\ view' = "page"
          ELSE /\ g_id_token' # g_id_token
               /\ g_id_token' = "" \/ view' = "welcome"
               /\ ~Anonymous(credentials') =>
                     /\ view' = "welcome"
                     /\ exchanged' # exchanged
                     /\ id_token' # g_id_token]_vars

C10_Witness ==
    /\ event = "load"
    /\ view = "page"
    /\ exchanged = {}
    /\ ~Anonymous(credentials)
    /\ g_id_token = id_token

\* C11: between runs, the session state holds a raw identity token only together
\* with the verified identity of that same token; after a callback whose token
\* fails verification the session holds neither.
C11_RawTokenOnlyWithIdentity ==
    id_token # NoToken =>
        /\ ~Anonymous(credentials)
        /\ credentials = IdentityOf(id_token)

====
